---- MODULE Spec2Model ----
(***************************************************************************)
(* Model of data_distiller.py: the batch loop that reads a scanned image   *)
(* dataset, runs one of four model adapters over it batch by batch, and    *)
(* saves (image_names, image_classes, embeddings) to one .npz archive.     *)
(*                                                                         *)
(* Strings are tuples of one-character strings, so that endswith,          *)
(* basename, splitext and "{}".format are computed, not assumed.           *)
(* A float is a pair <<num, den>> (den a power of two), which makes the    *)
(* pixel normalization (x - 127.5) * 0.0078125 exact.                      *)
(* An image is one pixel; the transposes of the Torch and MXNet adapters   *)
(* only permute axes and have no effect on a one-pixel image.              *)
(***************************************************************************)
EXTENDS Integers, Sequences, FiniteSets, TLC

\* ------------------------------------------------------------- bounds
MaxRecords == 4
MaxBatch == 2
MaxLimit == 2
MaxRuns == 2

\* ------------------------------------------------------------- strings
NPZ == <<".", "n", "p", "z">>
H5 == <<".", "h", "5">>
PTH == <<"p", "t", "h">>
PT == <<"p", "t">>
LABEL_EMBS == <<"_", "l", "a", "b", "e", "l", "_", "e", "m", "b", "s", "_">>
None == [some |-> FALSE, s |-> <<>>]

Str(s) == [some |-> TRUE, s |-> s]

Min(a, b) == IF a <= b THEN a ELSE b

\* str.endswith
EndsWith(s, suf) ==
  /\ Len(suf) <= Len(s)
  /\ SubSeq(s, Len(s) - Len(suf) + 1, Len(s)) = suf

\* position of the last occurrence of character c in s, 0 when absent
LastIndex(s, c) ==
  LET hits == {i \in 1..Len(s) : s[i] = c}
  IN IF hits = {} THEN 0 ELSE CHOOSE i \in hits : \A j \in hits : j <= i

\* os.path.basename
Basename(p) == SubSeq(p, LastIndex(p, "/") + 1, Len(p))

\* os.path.splitext(p)[0]: cut at the last dot, unless only dots precede it
SplitextRoot(p) ==
  LET dot == LastIndex(p, ".")
  IN IF dot > 0 /\ \E i \in 1..(dot - 1) : p[i] # "."
       THEN SubSeq(p, 1, dot - 1)
       ELSE p

Digits == <<"0", "1", "2", "3", "4", "5", "6", "7", "8", "9">>

\* "{}".format(n) for an integer n >= 0
RECURSIVE Format(_)
Format(n) ==
  IF n < 10 THEN <<Digits[n + 1]>>
  ELSE Format(n \div 10) \o <<Digits[(n % 10) + 1]>>

\* number of parts of str.split(",")
SplitParts(s) == Cardinality({i \in 1..Len(s) : s[i] = ","}) + 1

\* ------------------------------------------------------------- inputs
ImageIds == {1, 2}

\* data.tf_imread: the decoded image of a file, pixel values in 0..255
tf_imread(name) == <<(name * 85) % 256, 1>>

\* the class label the folder scanner attaches to an image file
ClassOf(name) == name - 1

\* data.pre_process_folder: the record lists it can return
ScannedNames == UNION {[1..n -> ImageIds] : n \in 0..MaxRecords}

PickleSrcs == {<<"d", "/", "c", ".", "n", "p", "z">>, <<".", "c">>}

DestFiles == {None, Str(<<"o">>), Str(<<"o">> \o NPZ)}

\* model arguments: a path (str) or an in-memory model; dim is the width of
\* the network's output layer
ModelArgs ==
  { [str |-> TRUE, s |-> <<"m">> \o H5, dim |-> 2],
    [str |-> TRUE, s |-> <<"a", ".">> \o PTH, dim |-> 10],
    [str |-> TRUE, s |-> <<"o">> \o PT, dim |-> 2],
    [str |-> TRUE, s |-> <<"m", ",", "1">>, dim |-> 10],
    [str |-> TRUE, s |-> <<"x", "h", "5">>, dim |-> 2],
    [str |-> FALSE, s |-> <<>>, dim |-> 2] }

BatchSizes == 1..MaxBatch
Limits == (-1)..MaxLimit

VARIABLES
  scanned,            \* image_names returned by pre_process_folder
  src,                \* dataset_pickle_file_src
  model, dest_arg, batch_size, limit,   \* arguments of data_distiller
  pc,                 \* position in data_distiller
  err,                \* the exception that ended the run, "none" if none
  run,                \* number of the current run
  image_names, image_classes,           \* after the limit slice
  total,              \* batch count announced to tqdm
  adapter,            \* which interpreter was built
  pos,                \* records consumed by the dataset iterator
  iters,              \* loop iterations entered
  imm, label,         \* the current batch
  imgs,               \* images of the current batch
  fed,                \* tensor handed to the network for the current batch
  emb,                \* interpreter output for the current batch
  new_image_names, new_image_classes, embeddings,
  loaded,             \* record indexes read by tf_imread, in order
  batchLens,          \* len(imm) of every iteration
  writes,             \* archives written by this run, in order
  archived            \* archives written by earlier runs

inputs == <<scanned, src, model, dest_arg, batch_size, limit>>
lists == <<new_image_names, new_image_classes, embeddings>>
batch == <<imm, label, imgs, fed, emb>>
logs == <<loaded, batchLens>>
vars == <<inputs, pc, err, run, image_names, image_classes, total, adapter,
          pos, iters, batch, lists, logs, writes, archived>>

\* ------------------------------------------------------------- helpers of data_distiller
\* the slice taken one record too long
LimitedOffByOne(seq, lim) ==
  IF lim > 0 THEN SubSeq(seq, 1, Min(lim + 1, Len(seq))) ELSE seq

\* image_names[:limit] when limit > 0, the whole list otherwise
Limited(seq, lim) ==
  IF lim > 0 THEN SubSeq(seq, 1, Min(lim, Len(seq))) ELSE seq

\* int(np.ceil(n // b)) + 1: n // b is already an integer, ceil leaves it alone
Total(n, b) == (n \div b) + 1

\* ds.batch(b, drop_remainder=True): a short last batch is never produced
BatchRangeDropRemainder(n, p, b) ==
  [lo |-> p + 1, hi |-> IF p + b <= n THEN p + b ELSE p]

\* ds.batch(b + 1)
BatchRangeTooWide(n, p, b) == [lo |-> p + 1, hi |-> Min(p + b + 1, n)]

\* ds.batch(b): the record indexes of the batch that follows p consumed records
\* (empty, lo > hi, when the dataset is exhausted)
BatchRange(n, p, b) == [lo |-> p + 1, hi |-> Min(p + b, n)]

\* (imgs - 127.5) * 0.0078125 on one value: (a/d - 255/2) / 128
Normalize(x) == <<2 * x[1] - 255 * x[2], 256 * x[2]>>

\* astype("uint8") on one value
Uint8(x) == <<(x[1] \div x[2]) % 256, 1>>

\* which branch of the model initialisation is taken
SelectAdapter(m) ==
  IF m.str
    THEN IF EndsWith(m.s, H5) THEN "keras"
         ELSE IF EndsWith(m.s, PTH) \/ EndsWith(m.s, PT) THEN "torch"
         ELSE "mxnet"
    ELSE "tf"

\* the Torch adapter without its normalization line
TorchCallRaw(x) == x

\* Torch_model_interf.__call__: the tensor given to the traced model
TorchCall(x) == [i \in 1..Len(x) |-> Normalize(x[i])]

\* Mxnet_model_interf.__call__: the data batch given to the module
MxnetCall(x) == x

\* the interpreter lambdas: the tensor each hands to its network
Interpreter(kind, x) ==
  CASE kind = "keras" -> [i \in 1..Len(x) |-> Normalize(x[i])]
    [] kind = "torch" -> TorchCall(x)
    [] kind = "mxnet" -> MxnetCall([i \in 1..Len(x) |-> Uint8(x[i])])
    [] kind = "tf" -> [i \in 1..Len(x) |-> Normalize(x[i])]

\* the network's forward pass: one vector of m.dim values per input row
Forward(m, x) ==
  [i \in 1..Len(x) |-> [j \in 1..m.dim |-> <<x[i][1] + j * x[i][2], x[i][2]>>]]

\* the accumulators created once and shared by every call
NewListShared(old) == old

\* line 92: each name is bound to a new empty list, whatever it held before
NewList(old) == <<>>

\* list.append in place of list.extend
Appended(list, items) == Append(list, items)

\* lines 98-99: list.extend with the names, the labels of the batch
Extended(list, items) == list \o items

\* embeddings.append(emb): the batch matrix becomes one element
AppendedRows(list, arr) == Append(list, arr)

\* line 100: list.extend with the rows of the batch's embedding matrix
ExtendedRows(list, arr) == list \o arr

\* the name the archive is saved under; only called with embs non-empty when
\* dest is None
DestName(dest, srcp, embs) ==
  LET d == IF dest = None
             THEN SplitextRoot(Basename(srcp)) \o LABEL_EMBS
                    \o Format(Len(embs[1])) \o NPZ
             ELSE dest.s
  IN IF EndsWith(d, NPZ) THEN d ELSE d \o NPZ

\* np.savez_compressed: one more archive on disk
Savez(ws, archive) == Append(ws, archive)

\* Mxnet_model_interf.__init__: prefix, epoch = model_file.split(",")
MxnetUnpacks(m) == SplitParts(m.s) = 2

\* ------------------------------------------------------------- state machine
Init ==
  /\ scanned \in ScannedNames
  /\ src \in PickleSrcs
  /\ model \in ModelArgs
  /\ dest_arg \in DestFiles
  /\ batch_size \in BatchSizes
  /\ limit \in Limits
  /\ pc = "start"
  /\ err = "none"
  /\ run = 1
  /\ image_names = <<>>
  /\ image_classes = <<>>
  /\ total = 0
  /\ adapter = "unset"
  /\ pos = 0
  /\ iters = 0
  /\ imm = <<>>
  /\ label = <<>>
  /\ imgs = <<>>
  /\ fed = <<>>
  /\ emb = <<>>
  /\ new_image_names = <<>>
  /\ new_image_classes = <<>>
  /\ embeddings = <<>>
  /\ loaded = <<>>
  /\ batchLens = <<>>
  /\ writes = <<>>
  /\ archived = {}

\* an exception caught around the loop body, the run going on to the save
FailThenSave(e) ==
  /\ pc' = "save"
  /\ err' = e

\* no try/except anywhere: an exception ends the run where it is raised
Fail(e) ==
  /\ pc' = "failed"
  /\ err' = e

\* lines 63-71: scan, apply the limit, build the batched dataset, count batches
PreProcess ==
  /\ pc = "start"
  /\ image_names' = Limited(scanned, limit)
  /\ image_classes' = Limited([i \in 1..Len(scanned) |-> ClassOf(scanned[i])], limit)
  /\ total' = Total(Len(Limited(scanned, limit)), batch_size)
  /\ pc' = "init_model"
  /\ UNCHANGED <<inputs, err, run, adapter, pos, iters, batch, lists, logs,
                 writes, archived>>

\* lines 74-89: build the interpreter; loading a model file may raise
InitModel ==
  /\ pc = "init_model"
  /\ adapter' = SelectAdapter(model)
  /\ \/ /\ SelectAdapter(model) = "mxnet" => MxnetUnpacks(model)
        /\ pc' = "extract"
        /\ UNCHANGED err
     \/ /\ model.str
        /\ Fail("load_model")
  /\ UNCHANGED <<inputs, run, image_names, image_classes, total, pos, iters,
                 batch, lists, logs, writes, archived>>

\* lines 92-93: fresh accumulators, iterator over the batched dataset
ExtractInit ==
  /\ pc = "extract"
  /\ new_image_names' = NewList(new_image_names)
  /\ new_image_classes' = NewList(new_image_classes)
  /\ embeddings' = NewList(embeddings)
  /\ pos' = 0
  /\ iters' = 0
  /\ pc' = "next"
  /\ UNCHANGED <<inputs, err, run, image_names, image_classes, total, adapter,
                 batch, logs, writes, archived>>

\* line 93: the for statement takes the next batch or leaves the loop
NextBatch ==
  /\ pc = "next"
  /\ LET r == BatchRange(Len(image_names), pos, batch_size)
     IN IF r.lo > r.hi
          THEN /\ pc' = "save"
               /\ UNCHANGED <<pos, iters, imm, label, batchLens>>
          ELSE /\ imm' = SubSeq(image_names, r.lo, r.hi)
               /\ label' = SubSeq(image_classes, r.lo, r.hi)
               /\ pos' = r.hi
               /\ iters' = iters + 1
               /\ batchLens' = Append(batchLens, r.hi - r.lo + 1)
               /\ pc' = "imread"
  /\ UNCHANGED <<inputs, err, run, image_names, image_classes, total, adapter,
                 imgs, fed, emb, lists, loaded, writes, archived>>

\* line 94: read the images of the batch; reading may raise
ReadImages ==
  /\ pc = "imread"
  /\ \/ /\ imgs' = [i \in 1..Len(imm) |-> tf_imread(imm[i])]
        /\ loaded' = loaded \o [i \in 1..Len(imm) |-> pos - Len(imm) + i]
        /\ pc' = "infer"
        /\ UNCHANGED err
     \/ /\ Fail("imread")
        /\ UNCHANGED <<imgs, loaded>>
  /\ UNCHANGED <<inputs, run, image_names, image_classes, total, adapter, pos,
                 iters, imm, label, fed, emb, lists, batchLens, writes, archived>>

\* line 96: run the interpreter on the batch; inference may raise
Infer ==
  /\ pc = "infer"
  /\ \/ /\ fed' = Interpreter(adapter, imgs)
        /\ emb' = Forward(model, Interpreter(adapter, imgs))
        /\ pc' = "extend"
        /\ UNCHANGED err
     \/ /\ Fail("inference")
        /\ UNCHANGED <<fed, emb>>
  /\ UNCHANGED <<inputs, run, image_names, image_classes, total, adapter, pos,
                 iters, imm, label, imgs, lists, logs, writes, archived>>

\* lines 98-100: append the batch to the three lists
Extend ==
  /\ pc = "extend"
  /\ new_image_names' = Extended(new_image_names, imm)
  /\ new_image_classes' = Extended(new_image_classes, label)
  /\ embeddings' = ExtendedRows(embeddings, emb)
  /\ pc' = "next"
  /\ UNCHANGED <<inputs, err, run, image_names, image_classes, total, adapter,
                 pos, iters, batch, logs, writes, archived>>

\* lines 104-112: name the archive and write it; embeddings[0] raises
\* IndexError on an empty list
Save ==
  /\ pc = "save"
  /\ IF dest_arg = None /\ embeddings = <<>>
       THEN /\ Fail("IndexError")
            /\ UNCHANGED writes
       ELSE /\ writes' = Savez(writes,
                 [file |-> DestName(dest_arg, src, embeddings),
                  image_names |-> new_image_names,
                  image_classes |-> new_image_classes,
                  embeddings |-> embeddings])
            /\ pc' = "done"
            /\ UNCHANGED err
  /\ UNCHANGED <<inputs, run, image_names, image_classes, total, adapter, pos,
                 iters, batch, lists, logs, archived>>

\* the script is started again with the same arguments; the earlier archive
\* stays on disk, every name is assigned again before it is read
Rerun ==
  /\ pc \in {"done", "failed"}
  /\ run < MaxRuns
  /\ run' = run + 1
  /\ pc' = "start"
  /\ err' = "none"
  /\ archived' = archived \cup {writes[i] : i \in 1..Len(writes)}
  /\ writes' = <<>>
  /\ loaded' = <<>>
  /\ batchLens' = <<>>
  /\ UNCHANGED <<inputs, image_names, image_classes, total, adapter, pos, iters,
                 batch, lists>>

Next ==
  \/ PreProcess
  \/ InitModel
  \/ ExtractInit
  \/ NextBatch
  \/ ReadImages
  \/ Infer
  \/ Extend
  \/ Save
  \/ Rerun

Spec == Init /\ [][Next]_vars

\* ------------------------------------------------------------- properties
InLoop == pc \in {"next", "imread", "infer", "extend"}

AfterLoop == pc \in {"save", "done"} \/ (pc = "failed" /\ err = "IndexError")

CeilDiv(n, b) == (n + b - 1) \div b

\* number of records the run has to process
Kept == IF limit > 0 THEN Min(limit, Len(scanned)) ELSE Len(scanned)

\* the adapter's output for the single image of record i
EmbeddingOf(i) ==
  Forward(model, Interpreter(SelectAdapter(model), <<tf_imread(scanned[i])>>))[1]

\* C1: the three accumulator lists have equal length after every completed
\* loop iteration, and so have the three arrays of every archive written.
C1_EqualLengths ==
  /\ (InLoop \/ AfterLoop) =>
       /\ Len(new_image_names) = Len(new_image_classes)
       /\ Len(new_image_classes) = Len(embeddings)
  /\ \A k \in 1..Len(writes) :
       /\ Len(writes[k].image_names) = Len(writes[k].image_classes)
       /\ Len(writes[k].image_classes) = Len(writes[k].embeddings)

C1_Witness ==
  /\ pc = "done"
  /\ batch_size = 2
  /\ Len(writes) = 1
  /\ Len(writes[1].embeddings) = 3

\* C2 as stated: with any limit other than -1, no archive holds more than
\* limit records.
C2_AtMostLimit_Original ==
  limit # -1 => \A k \in 1..Len(writes) : Len(writes[k].image_names) <= limit

\* C2 amended: with a limit L >= 1, neither the accumulators nor any archive
\* hold more than L records.
C2_AtMostPositiveLimit ==
  limit >= 1 =>
    /\ (InLoop \/ AfterLoop) => Len(new_image_names) <= limit
    /\ \A k \in 1..Len(writes) :
         /\ Len(writes[k].image_names) <= limit
         /\ Len(writes[k].embeddings) <= limit

C2_Witness ==
  /\ pc = "done"
  /\ limit = 1
  /\ Len(scanned) = 3
  /\ Len(writes) = 1
  /\ Len(writes[1].image_names) = 1

\* C3: the accumulated names, classes and embeddings are always a prefix of
\* the (limited) input record list in input order, embedding i being the
\* adapter's output for image i, and a written archive holds the whole list.
C3_OrderPreserved ==
  /\ (InLoop \/ AfterLoop) =>
       /\ Len(new_image_names) <= Kept
       /\ \A i \in 1..Len(new_image_names) :
            /\ new_image_names[i] = scanned[i]
            /\ new_image_classes[i] = ClassOf(scanned[i])
            /\ embeddings[i] = EmbeddingOf(i)
  /\ \A k \in 1..Len(writes) :
       /\ writes[k].image_names = [i \in 1..Kept |-> scanned[i]]
       /\ writes[k].image_classes = [i \in 1..Kept |-> ClassOf(scanned[i])]
       /\ writes[k].embeddings = [i \in 1..Kept |-> EmbeddingOf(i)]

C3_Witness ==
  /\ pc = "done"
  /\ batch_size = 2
  /\ limit = -1
  /\ scanned = <<2, 1, 2>>
  /\ Len(writes) = 1
  /\ writes[1].image_names = <<2, 1, 2>>

C4_Inv ==
  /\ Len(writes) <= 1
  /\ pc = "done" <=> Len(writes) = 1
  /\ pc = "done" => err = "none"
  /\ pc = "failed" => err # "none"
  /\ Len(writes) = 1 =>
       /\ pos = Len(image_names)
       /\ iters = CeilDiv(Len(image_names), batch_size)
       /\ writes[1].image_names = image_names
       /\ Len(writes[1].embeddings) = Len(image_names)

C5_DefaultNamedArchive ==
  (/\ pc \in {"done", "failed"}
   /\ err \notin {"load_model", "imread", "inference"}
   /\ dest_arg = None) =>
    /\ Len(writes) = 1
    /\ writes[1].file =
         SplitextRoot(Basename(src)) \o LABEL_EMBS \o Format(model.dim) \o NPZ

\* C6: the adapter is decided by the model argument alone (.h5: Keras; pth or
\* pt: Torch; any other string: MXNet; not a string: TF), and the tensor given
\* to the network is the batch normalized once for Keras, Torch and TF and the
\* batch itself for MXNet.
C6_AdapterAndNormalization ==
  /\ adapter # "unset" =>
       /\ (model.str /\ EndsWith(model.s, H5)) <=> adapter = "keras"
       /\ (model.str /\ (EndsWith(model.s, PTH) \/ EndsWith(model.s, PT)))
            <=> adapter = "torch"
       /\ (/\ model.str
           /\ ~EndsWith(model.s, H5)
           /\ ~EndsWith(model.s, PTH)
           /\ ~EndsWith(model.s, PT)) <=> adapter = "mxnet"
       /\ ~model.str <=> adapter = "tf"
  /\ pc = "extend" =>
       /\ Len(fed) = Len(imgs)
       /\ \A i \in 1..Len(imgs) :
            /\ adapter \in {"keras", "torch", "tf"} =>
                 /\ fed[i][1] * 256 = (2 * imgs[i][1] - 255) * fed[i][2]
                 /\ fed[i] # imgs[i]
                 /\ fed[i] # Normalize(Normalize(imgs[i]))
            /\ adapter = "mxnet" => fed[i] = imgs[i]

C6_Witness ==
  /\ pc = "extend"
  /\ adapter = "torch"
  /\ Len(imgs) = 2

C6_WitnessMxnet ==
  /\ pc = "extend"
  /\ adapter = "mxnet"
  /\ Len(imgs) = 2

C8_ConstantDimension ==
  /\ (InLoop \/ AfterLoop) =>
       \A i \in 1..Len(embeddings) : Len(embeddings[i]) = Len(embeddings[1])
  /\ \A k \in 1..Len(writes) : dest_arg = None =>
       \A i \in 1..Len(writes[k].embeddings) :
         writes[k].file =
           SplitextRoot(Basename(src)) \o LABEL_EMBS
             \o Format(Len(writes[k].embeddings[i])) \o NPZ

C8_Witness ==
  /\ pc = "done"
  /\ dest_arg = None
  /\ model.dim = 10
  /\ batch_size = 2
  /\ Len(writes) = 1
  /\ Len(writes[1].embeddings) = 3

\* C9: the loop enters at most ceil(n / b) iterations and exactly that many
\* when it ends; record indexes are read once each and in order; every batch
\* has 1..b records and every batch but the last has b; the images of a batch
\* are read only when the results of all earlier batches are in the lists.
C9_BatchSequential ==
  LET n == Len(image_names)
      b == batch_size
  IN /\ (InLoop \/ AfterLoop) =>
          /\ iters <= CeilDiv(n, b)
          /\ Len(batchLens) = iters
          /\ \A k \in 1..Len(batchLens) :
               /\ batchLens[k] >= 1
               /\ batchLens[k] <= b
               /\ k < CeilDiv(n, b) => batchLens[k] = b
          /\ loaded = [i \in 1..Len(loaded) |-> i]
     /\ pc = "next" => Len(embeddings) = pos /\ Len(loaded) = pos
     /\ pc = "imread" =>
          /\ Len(loaded) = pos - Len(imm)
          /\ Len(embeddings) = Len(loaded)
     /\ pc \in {"infer", "extend"} =>
          /\ Len(loaded) = pos
          /\ Len(embeddings) = pos - Len(imgs)
          /\ Len(imgs) = batchLens[iters]
     /\ AfterLoop =>
          /\ iters = CeilDiv(n, b)
          /\ Len(loaded) = n
          /\ Len(embeddings) = n

C9_Witness ==
  /\ pc = "save"
  /\ batch_size = 2
  /\ batchLens = <<2, 1>>
  /\ loaded = <<1, 2, 3>>

\* C10 as stated: when the loop has ended, the batch count announced to the
\* progress bar is the number of iterations the loop made.
C10_TotalIsBatchCount ==
  AfterLoop => total = iters

\* sanity of the string helpers on the inputs used
StringHelpersSane ==
  /\ SplitextRoot(Basename(<<"d", "/", "c", ".", "n", "p", "z">>)) = <<"c">>
  /\ SplitextRoot(Basename(<<".", "c">>)) = <<".", "c">>
  /\ Format(10) = <<"1", "0">>
  /\ Format(2) = <<"2">>
  /\ DestName(Str(<<"o">>), <<"x">>, <<>>) = <<"o", ".", "n", "p", "z">>
  /\ DestName(Str(<<"o">> \o NPZ), <<"x">>, <<>>) = <<"o", ".", "n", "p", "z">>

====
